---------------------------- MODULE Spec2Model ----------------------------
(***************************************************************************)
(* The in-memory knowledge graph of mcp/knowledge-graph/server.py: the     *)
(* process-wide dictionary knowledge_graph and the five tools that         *)
(* call_tool dispatches on.  One action per tool; each action is the whole *)
(* handler, from reading the argument bag to the returned TextContent.     *)
(***************************************************************************)
EXTENDS Integers, Sequences, FiniteSets, TLC

VARIABLES
    knowledge_graph,  \* [entities, relations]: the module-level dictionary
    name,             \* tool name of the last call_tool invocation
    arguments,        \* its argument bag (a function on the keys given)
    result            \* what the invocation returned or raised

vars == <<knowledge_graph, name, arguments, result>>

(***************************************************************************)
(* Bounds of the exploration.                                              *)
(***************************************************************************)
MaxRelations == 2   \* longest relation log explored
MaxDepth == 2       \* largest depth passed to kg_get_neighbors
MaxLog == 11        \* longest relation log of the universe Defaults
MaxLimit == 2       \* largest limit passed to kg_query

(***************************************************************************)
(* Python strings.  Stored values are TLA+ strings; str.lower() and the    *)
(* substring test `in` work on their characters, which StrChars spells out *)
(* for every string the exploration uses.                                  *)
(***************************************************************************)
StrChars ==
    [s \in {"", "A", "B", "C", "a", "P", "person", "concept", "Person",
            "knows", "related_to", "KNOWS", "o", "c", "x"} |->
        CASE s = "" -> <<>>
          [] s = "A" -> <<"A">>
          [] s = "B" -> <<"B">>
          [] s = "C" -> <<"C">>
          [] s = "a" -> <<"a">>
          [] s = "P" -> <<"P">>
          [] s = "o" -> <<"o">>
          [] s = "c" -> <<"c">>
          [] s = "x" -> <<"x">>
          [] s = "person" -> <<"p", "e", "r", "s", "o", "n">>
          [] s = "Person" -> <<"P", "e", "r", "s", "o", "n">>
          [] s = "concept" -> <<"c", "o", "n", "c", "e", "p", "t">>
          [] s = "knows" -> <<"k", "n", "o", "w", "s">>
          [] s = "KNOWS" -> <<"K", "N", "O", "W", "S">>
          [] s = "related_to" ->
                <<"r", "e", "l", "a", "t", "e", "d", "_", "t", "o">>]

\* str.lower() on one character: upper-case letters map to lower case,
\* everything else is kept.
LowerChar(ch) ==
    CASE ch = "A" -> "a" [] ch = "B" -> "b" [] ch = "C" -> "c"
      [] ch = "K" -> "k" [] ch = "N" -> "n" [] ch = "O" -> "o"
      [] ch = "P" -> "p" [] ch = "S" -> "s" [] ch = "W" -> "w"
      [] OTHER -> ch

\* str.lower(): the characters of s, each lower-cased.
lower(s) == [i \in 1..Len(StrChars[s]) |-> LowerChar(StrChars[s][i])]

\* Python's `q in t` on character sequences: q occurs in t as a contiguous
\* run (the empty q occurs in every t).
contains(t, q) ==
    \E off \in 0..(Len(t) - Len(q)) :
        \A i \in 1..Len(q) : t[off + i] = q[i]

(***************************************************************************)
(* Python dicts.  knowledge_graph["entities"] is a dict: unique keys, kept *)
(* in order of first insertion; assigning to an existing key replaces the  *)
(* value and keeps the key's position.  It is modelled as the sequence of  *)
(* its items, each [id, data].                                             *)
(***************************************************************************)
dict_keys(d) == {d[i].id : i \in 1..Len(d)}

dict_has(d, k) == k \in dict_keys(d)

dict_get(d, k) == d[CHOOSE i \in 1..Len(d) : d[i].id = k].data

\* Mutant: an overwritten item moves to the end (del d[k]; d[k] = v).
dict_set_move_to_end(d, k, v) ==
    Append(SelectSeq(d, LAMBDA it : it.id # k), [id |-> k, data |-> v])

\* Mutant: the item is put at the end whether or not the key is there.
dict_set_append(d, k, v) == Append(d, [id |-> k, data |-> v])

\* d[k] = v
dict_set(d, k, v) ==
    IF dict_has(d, k)
    THEN [i \in 1..Len(d) |-> IF d[i].id = k THEN [id |-> k, data |-> v] ELSE d[i]]
    ELSE Append(d, [id |-> k, data |-> v])

\* arguments.get(key, default)
args_get(args, key, default) ==
    IF key \in DOMAIN args THEN args[key] ELSE default

\* The empty property bag {} that arguments.get("properties", {}) defaults to.
EmptyBag == <<>>

(***************************************************************************)
(* What call_tool hands back: a TextContent whose text is a formatted      *)
(* message (the pieces of the f-string), a TextContent whose text is       *)
(* json.dumps of a value (the value), or a raised exception.               *)
(***************************************************************************)
Text(pieces) == [kind |-> "text", body |-> pieces]
Json(value) == [kind |-> "json", body |-> value]
Raise(exc) == [kind |-> "raise", body |-> exc]

\* Whether every key in `required` can be subscripted (arguments["k"]);
\* a missing one raises KeyError.
has_all(args, required) == required \subseteq DOMAIN args


Outcome(kg, res) == [kg |-> kg, result |-> res]

(***************************************************************************)
(* kg_add_entity: upsert of the entity record under its id.                *)
(***************************************************************************)
\* Mutant: overwriting an entity removes the relations that touch it.
kg_add_entity_cascade(kg, args, now) ==
    IF ~has_all(args, {"entity", "type"})
    THEN Outcome(kg, Raise("KeyError"))
    ELSE LET entity_id == args["entity"]
             entity_data == [type |-> args["type"],
                             properties |-> args_get(args, "properties", EmptyBag),
                             created_at |-> now]
         IN Outcome([entities |-> dict_set(kg.entities, entity_id, entity_data),
                     relations |->
                         SelectSeq(kg.relations,
                                   LAMBDA rel : rel.from # entity_id /\ rel.to # entity_id)],
                    Text(<<"Added entity '", entity_id, "' of type '",
                           entity_data.type, "'">>))

\* Mutant: a missing "type" is read as the empty type.
kg_add_entity_lenient(kg, args, now) ==
    IF ~has_all(args, {"entity"})
    THEN Outcome(kg, Raise("KeyError"))
    ELSE LET entity_id == args["entity"]
             entity_data == [type |-> args_get(args, "type", ""),
                             properties |-> args_get(args, "properties", EmptyBag),
                             created_at |-> now]
         IN Outcome([kg EXCEPT !.entities = dict_set(@, entity_id, entity_data)],
                    Text(<<"Added entity '", entity_id, "' of type '",
                           entity_data.type, "'">>))

\* Mutant: dict.update() of the stored property bag instead of a new record.
kg_add_entity_merge(kg, args, now) ==
    IF ~has_all(args, {"entity", "type"})
    THEN Outcome(kg, Raise("KeyError"))
    ELSE LET entity_id == args["entity"]
             given == args_get(args, "properties", EmptyBag)
             old == IF dict_has(kg.entities, entity_id)
                    THEN dict_get(kg.entities, entity_id).properties
                    ELSE EmptyBag
             entity_data == [type |-> args["type"],
                             properties |->
                                 [k \in DOMAIN old \cup DOMAIN given |->
                                     IF k \in DOMAIN given THEN given[k] ELSE old[k]],
                             created_at |-> now]
         IN Outcome([kg EXCEPT !.entities = dict_set(@, entity_id, entity_data)],
                    Text(<<"Added entity '", entity_id, "' of type '",
                           entity_data.type, "'">>))

kg_add_entity(kg, args, now) ==
    IF ~has_all(args, {"entity", "type"})
    THEN Outcome(kg, Raise("KeyError"))
    ELSE LET entity_id == args["entity"]
             entity_data == [type |-> args["type"],
                             properties |-> args_get(args, "properties", EmptyBag),
                             created_at |-> now]
         IN Outcome([kg EXCEPT !.entities = dict_set(@, entity_id, entity_data)],
                    Text(<<"Added entity '", entity_id, "' of type '",
                           entity_data.type, "'">>))

(***************************************************************************)
(* kg_add_relation: both endpoints are looked up before the append.        *)
(***************************************************************************)
\* Mutant: only the source endpoint is looked up.
kg_add_relation_unchecked_to(kg, args, now) ==
    IF ~has_all(args, {"from_entity", "to_entity", "relation"})
    THEN Outcome(kg, Raise("KeyError"))
    ELSE LET relation_data == [from |-> args["from_entity"],
                               relation |-> args["relation"],
                               to |-> args["to_entity"],
                               properties |-> args_get(args, "properties", EmptyBag),
                               created_at |-> now]
         IN IF ~dict_has(kg.entities, args["from_entity"])
            THEN Outcome(kg, Text(<<"Error: Entity '", args["from_entity"],
                                    "' not found. Add it first with kg_add_entity.">>))
            ELSE Outcome([kg EXCEPT !.relations = Append(@, relation_data)],
                         Text(<<"Added relation: ", args["from_entity"], " --[",
                                args["relation"], "]--> ", args["to_entity"]>>))

\* Mutant: the record is appended before the endpoints are looked up.
kg_add_relation_append_first(kg, args, now) ==
    IF ~has_all(args, {"from_entity", "to_entity", "relation"})
    THEN Outcome(kg, Raise("KeyError"))
    ELSE LET relation_data == [from |-> args["from_entity"],
                               relation |-> args["relation"],
                               to |-> args["to_entity"],
                               properties |-> args_get(args, "properties", EmptyBag),
                               created_at |-> now]
             appended == [kg EXCEPT !.relations = Append(@, relation_data)]
         IN IF ~dict_has(kg.entities, args["from_entity"])
            THEN Outcome(appended, Text(<<"Error: Entity '", args["from_entity"],
                                          "' not found. Add it first with kg_add_entity.">>))
            ELSE IF ~dict_has(kg.entities, args["to_entity"])
            THEN Outcome(appended, Text(<<"Error: Entity '", args["to_entity"],
                                          "' not found. Add it first with kg_add_entity.">>))
            ELSE Outcome(appended,
                         Text(<<"Added relation: ", args["from_entity"], " --[",
                                args["relation"], "]--> ", args["to_entity"]>>))

\* Mutant: a relation already in the log with the same endpoints and label
\* is not appended again.
kg_add_relation_dedup(kg, args, now) ==
    IF ~has_all(args, {"from_entity", "to_entity", "relation"})
    THEN Outcome(kg, Raise("KeyError"))
    ELSE LET relation_data == [from |-> args["from_entity"],
                               relation |-> args["relation"],
                               to |-> args["to_entity"],
                               properties |-> args_get(args, "properties", EmptyBag),
                               created_at |-> now]
             present == \E i \in 1..Len(kg.relations) :
                            /\ kg.relations[i].from = relation_data.from
                            /\ kg.relations[i].relation = relation_data.relation
                            /\ kg.relations[i].to = relation_data.to
         IN IF ~dict_has(kg.entities, args["from_entity"])
            THEN Outcome(kg, Text(<<"Error: Entity '", args["from_entity"],
                                    "' not found. Add it first with kg_add_entity.">>))
            ELSE IF ~dict_has(kg.entities, args["to_entity"])
            THEN Outcome(kg, Text(<<"Error: Entity '", args["to_entity"],
                                    "' not found. Add it first with kg_add_entity.">>))
            ELSE Outcome(IF present THEN kg
                         ELSE [kg EXCEPT !.relations = Append(@, relation_data)],
                         Text(<<"Added relation: ", args["from_entity"], " --[",
                                args["relation"], "]--> ", args["to_entity"]>>))

\* Mutant: the new record is put in front of the log.
kg_add_relation_prepend(kg, args, now) ==
    IF ~has_all(args, {"from_entity", "to_entity", "relation"})
    THEN Outcome(kg, Raise("KeyError"))
    ELSE LET from_entity == args["from_entity"]
             to_entity == args["to_entity"]
             relation == args["relation"]
             relation_data == [from |-> from_entity,
                               relation |-> relation,
                               to |-> to_entity,
                               properties |-> args_get(args, "properties", EmptyBag),
                               created_at |-> now]
         IN IF ~dict_has(kg.entities, from_entity)
            THEN Outcome(kg, Text(<<"Error: Entity '", from_entity,
                                    "' not found. Add it first with kg_add_entity.">>))
            ELSE IF ~dict_has(kg.entities, to_entity)
            THEN Outcome(kg, Text(<<"Error: Entity '", to_entity,
                                    "' not found. Add it first with kg_add_entity.">>))
            ELSE Outcome([kg EXCEPT !.relations = <<relation_data>> \o @],
                         Text(<<"Added relation: ", from_entity, " --[", relation,
                                "]--> ", to_entity>>))

kg_add_relation(kg, args, now) ==
    IF ~has_all(args, {"from_entity", "to_entity", "relation"})
    THEN Outcome(kg, Raise("KeyError"))
    ELSE LET from_entity == args["from_entity"]
             to_entity == args["to_entity"]
             relation == args["relation"]
             relation_data == [from |-> from_entity,
                               relation |-> relation,
                               to |-> to_entity,
                               properties |-> args_get(args, "properties", EmptyBag),
                               created_at |-> now]
         IN IF ~dict_has(kg.entities, from_entity)
            THEN Outcome(kg, Text(<<"Error: Entity '", from_entity,
                                    "' not found. Add it first with kg_add_entity.">>))
            ELSE IF ~dict_has(kg.entities, to_entity)
            THEN Outcome(kg, Text(<<"Error: Entity '", to_entity,
                                    "' not found. Add it first with kg_add_entity.">>))
            ELSE Outcome([kg EXCEPT !.relations = Append(@, relation_data)],
                         Text(<<"Added relation: ", from_entity, " --[", relation,
                                "]--> ", to_entity>>))

(***************************************************************************)
(* kg_query: scan of the entities (in dict order) or of the relation log,  *)
(* appending each match and leaving the loop once len(results) >= limit.   *)
(***************************************************************************)
entity_match(query, item) ==
    \/ contains(lower(item.id), query)
    \/ contains(lower(item.data.type), query)

entity_result(item) ==
    [id |-> item.id, type |-> item.data.type, properties |-> item.data.properties]

relation_match(query, rel) == contains(lower(rel.relation), query)

relation_result(rel) == [from |-> rel.from, relation |-> rel.relation, to |-> rel.to]

\* The for loop over items from index i on, with results so far.
RECURSIVE scan_entities(_, _, _, _, _)
scan_entities(items, i, query, limit, results) ==
    IF i > Len(items) THEN results
    ELSE IF entity_match(query, items[i])
    THEN LET appended == Append(results, entity_result(items[i]))
         IN IF Len(appended) >= limit THEN appended
            ELSE scan_entities(items, i + 1, query, limit, appended)
    ELSE scan_entities(items, i + 1, query, limit, results)

RECURSIVE scan_relations(_, _, _, _, _)
scan_relations(rels, i, query, limit, results) ==
    IF i > Len(rels) THEN results
    ELSE IF relation_match(query, rels[i])
    THEN LET appended == Append(results, relation_result(rels[i]))
         IN IF Len(appended) >= limit THEN appended
            ELSE scan_relations(rels, i + 1, query, limit, appended)
    ELSE scan_relations(rels, i + 1, query, limit, results)

\* Mutant: the query text is compared as typed, without .lower().
kg_query_case_sensitive(kg, args) ==
    IF ~has_all(args, {"query"})
    THEN Outcome(kg, Raise("KeyError"))
    ELSE LET query == StrChars[args["query"]]
             query_type == args_get(args, "query_type", "entity")
             limit == args_get(args, "limit", 10)
             results ==
                 IF query_type = "entity"
                 THEN scan_entities(kg.entities, 1, query, limit, <<>>)
                 ELSE IF query_type = "relation"
                 THEN scan_relations(kg.relations, 1, query, limit, <<>>)
                 ELSE <<>>
         IN Outcome(kg, Json([query |-> args["query"], results |-> results]))

\* Mutant: the query_type "path" searches the entities.
kg_query_path_as_entity(kg, args) ==
    IF ~has_all(args, {"query"})
    THEN Outcome(kg, Raise("KeyError"))
    ELSE LET query == lower(args["query"])
             query_type == args_get(args, "query_type", "entity")
             limit == args_get(args, "limit", 10)
             results ==
                 IF query_type \in {"entity", "path"}
                 THEN scan_entities(kg.entities, 1, query, limit, <<>>)
                 ELSE IF query_type = "relation"
                 THEN scan_relations(kg.relations, 1, query, limit, <<>>)
                 ELSE <<>>
         IN Outcome(kg, Json([query |-> args["query"], results |-> results]))

\* Mutant: an omitted limit is read as 5.
kg_query_default_five(kg, args) ==
    IF ~has_all(args, {"query"})
    THEN Outcome(kg, Raise("KeyError"))
    ELSE LET query == lower(args["query"])
             query_type == args_get(args, "query_type", "entity")
             limit == args_get(args, "limit", 5)
             results ==
                 IF query_type = "entity"
                 THEN scan_entities(kg.entities, 1, query, limit, <<>>)
                 ELSE IF query_type = "relation"
                 THEN scan_relations(kg.relations, 1, query, limit, <<>>)
                 ELSE <<>>
         IN Outcome(kg, Json([query |-> args["query"], results |-> results]))

kg_query(kg, args) ==
    IF ~has_all(args, {"query"})
    THEN Outcome(kg, Raise("KeyError"))
    ELSE LET query == lower(args["query"])
             query_type == args_get(args, "query_type", "entity")
             limit == args_get(args, "limit", 10)
             results ==
                 IF query_type = "entity"
                 THEN scan_entities(kg.entities, 1, query, limit, <<>>)
                 ELSE IF query_type = "relation"
                 THEN scan_relations(kg.relations, 1, query, limit, <<>>)
                 ELSE <<>>
         IN Outcome(kg, Json([query |-> args["query"], results |-> results]))

(***************************************************************************)
(* kg_get_neighbors: depth rounds, each a full scan of the relation log.   *)
(***************************************************************************)
\* Mutant: relations are followed from source to target only.
RECURSIVE scan_round_forward(_, _, _, _, _)
scan_round_forward(rels, i, current_level, neighbors, next_level) ==
    IF i > Len(rels) THEN [neighbors |-> neighbors, next_level |-> next_level]
    ELSE LET rel == rels[i]
             fwd == IF rel.from \in current_level THEN {rel.to} ELSE {}
         IN scan_round_forward(rels, i + 1, current_level,
                               neighbors \cup fwd, next_level \cup fwd)

\* One pass of `for rel in knowledge_graph["relations"]` from index i on.
RECURSIVE scan_round(_, _, _, _, _)
scan_round(rels, i, current_level, neighbors, next_level) ==
    IF i > Len(rels) THEN [neighbors |-> neighbors, next_level |-> next_level]
    ELSE LET rel == rels[i]
             fwd == IF rel.from \in current_level THEN {rel.to} ELSE {}
             bwd == IF rel.to \in current_level THEN {rel.from} ELSE {}
         IN scan_round(rels, i + 1, current_level,
                       neighbors \cup fwd \cup bwd, next_level \cup fwd \cup bwd)

\* Mutant: each round's finds replace the neighbors found so far.
RECURSIVE traverse_last_level(_, _, _, _)
traverse_last_level(rels, left, current_level, neighbors) ==
    IF left < 1 THEN neighbors
    ELSE LET r == scan_round(rels, 1, current_level, {}, {})
         IN traverse_last_level(rels, left - 1, r.next_level, r.neighbors)

\* Mutant: range(depth + 1), one round too many.
RECURSIVE traverse_inclusive(_, _, _, _)
traverse_inclusive(rels, left, current_level, neighbors) ==
    IF left < 0 THEN neighbors
    ELSE LET r == scan_round(rels, 1, current_level, neighbors, {})
         IN traverse_inclusive(rels, left - 1, r.next_level, r.neighbors)

\* Mutant: the frontier is not advanced, every round starts from the start.
RECURSIVE traverse_same_level(_, _, _, _)
traverse_same_level(rels, left, current_level, neighbors) ==
    IF left < 1 THEN neighbors
    ELSE LET r == scan_round(rels, 1, current_level, neighbors, {})
         IN traverse_same_level(rels, left - 1, current_level, r.neighbors)

\* Mutant: min(depth, 1) rounds, a depth above 1 read as 1.
traverse_single_round(rels, left, current_level, neighbors) ==
    IF left < 1 THEN neighbors
    ELSE scan_round(rels, 1, current_level, neighbors, {}).neighbors

\* Mutant: range(abs(depth)), a negative depth read as its magnitude.
RECURSIVE traverse_abs(_, _, _, _)
traverse_abs(rels, left, current_level, neighbors) ==
    IF left = 0 THEN neighbors
    ELSE LET r == scan_round(rels, 1, current_level, neighbors, {})
             togo == IF left < 0 THEN -left - 1 ELSE left - 1
         IN traverse_abs(rels, togo, r.next_level, r.neighbors)

\* `for _ in range(depth)` with `left` rounds to go; range of a number
\* below 1 is empty.
RECURSIVE traverse(_, _, _, _)
traverse(rels, left, current_level, neighbors) ==
    IF left < 1 THEN neighbors
    ELSE LET r == scan_round(rels, 1, current_level, neighbors, {})
         IN traverse(rels, left - 1, r.next_level, r.neighbors)

\* Mutant: the start entity is not discarded from the visited set.
neighbor_ids_keep_self(kg, entity, depth) ==
    traverse(kg.relations, depth, {entity}, {})

\* The ids the traversal ends with, the start discarded.
neighbor_ids(kg, entity, depth) ==
    traverse(kg.relations, depth, {entity}, {}) \ {entity}

\* `for neighbor in neighbors`: Python fixes no iteration order for a set of
\* strings; the members come in the order `order`, an arrangement of the ids,
\* lists them.
iterate(neighbors, order) == SelectSeq(order, LAMBDA n : n \in neighbors)

\* Mutant: the first iterated id is left out of the list.
neighbor_data_skip_first(kg, iterated) ==
    LET kept == SelectSeq(iterated, LAMBDA n : dict_has(kg.entities, n))
    IN [i \in 1..(Len(kept) - 1) |->
           [id |-> kept[i + 1], type |-> dict_get(kg.entities, kept[i + 1]).type]]

\* neighbor_data: one {id, type} per iterated id that is a key of entities.
neighbor_data(kg, iterated) ==
    LET kept == SelectSeq(iterated, LAMBDA n : dict_has(kg.entities, n))
    IN [i \in 1..Len(kept) |->
           [id |-> kept[i], type |-> dict_get(kg.entities, kept[i]).type]]

\* Mutant: an unknown start entity is reported and entered into the store.
kg_get_neighbors_autocreate(kg, args, order) ==
    IF ~has_all(args, {"entity"})
    THEN Outcome(kg, Raise("KeyError"))
    ELSE LET entity == args["entity"]
             depth == args_get(args, "depth", 1)
         IN IF ~dict_has(kg.entities, entity)
            THEN Outcome([kg EXCEPT !.entities =
                              dict_set(@, entity, [type |-> "", properties |-> EmptyBag,
                                                   created_at |-> 0])],
                         Text(<<"Error: Entity '", entity, "' not found">>))
            ELSE LET neighbors == neighbor_ids(kg, entity, depth)
                 IN Outcome(kg, Json([entity |-> entity,
                                      depth |-> depth,
                                      neighbors |->
                                          neighbor_data(kg, iterate(neighbors, order))]))

\* Mutant: the start entity is not looked up before the traversal.
kg_get_neighbors_unchecked(kg, args, order) ==
    IF ~has_all(args, {"entity"})
    THEN Outcome(kg, Raise("KeyError"))
    ELSE LET entity == args["entity"]
             depth == args_get(args, "depth", 1)
             neighbors == neighbor_ids(kg, entity, depth)
         IN Outcome(kg, Json([entity |-> entity,
                              depth |-> depth,
                              neighbors |->
                                  neighbor_data(kg, iterate(neighbors, order))]))

kg_get_neighbors(kg, args, order) ==
    IF ~has_all(args, {"entity"})
    THEN Outcome(kg, Raise("KeyError"))
    ELSE LET entity == args["entity"]
             depth == args_get(args, "depth", 1)
         IN IF ~dict_has(kg.entities, entity)
            THEN Outcome(kg, Text(<<"Error: Entity '", entity, "' not found">>))
            ELSE LET neighbors == neighbor_ids(kg, entity, depth)
                 IN Outcome(kg, Json([entity |-> entity,
                                      depth |-> depth,
                                      neighbors |->
                                          neighbor_data(kg, iterate(neighbors, order))]))

(***************************************************************************)
(* kg_stats: counts and the two histograms, each by one scan.              *)
(***************************************************************************)
\* Mutant: a key that is counted already keeps its count.
count_up_once(hist, key) ==
    [k \in DOMAIN hist \cup {key} |->
        IF k \in DOMAIN hist THEN hist[k] ELSE 1]

\* stats[key] = stats.get(key, 0) + 1
count_up(hist, key) ==
    [k \in DOMAIN hist \cup {key} |->
        IF k = key THEN (IF key \in DOMAIN hist THEN hist[key] ELSE 0) + 1
        ELSE hist[k]]

\* Mutant: the first record of the dict is not counted.
RECURSIVE count_entity_types_skip_first(_, _, _)
count_entity_types_skip_first(items, i, hist) ==
    IF i > Len(items) THEN hist
    ELSE count_entity_types_skip_first(items, i + 1,
             IF i = 1 THEN hist ELSE count_up(hist, items[i].data.type))

RECURSIVE count_entity_types(_, _, _)
count_entity_types(items, i, hist) ==
    IF i > Len(items) THEN hist
    ELSE count_entity_types(items, i + 1, count_up(hist, items[i].data.type))

RECURSIVE count_relation_types(_, _, _)
count_relation_types(rels, i, hist) ==
    IF i > Len(rels) THEN hist
    ELSE count_relation_types(rels, i + 1, count_up(hist, rels[i].relation))

\* Mutant: relations_count counts the distinct (from, label, to) of the log.
kg_stats_distinct_relations(kg) ==
    Outcome(kg, Json([entities_count |-> Len(kg.entities),
                      relations_count |->
                          Cardinality({<<kg.relations[i].from, kg.relations[i].relation,
                                         kg.relations[i].to>> : i \in 1..Len(kg.relations)}),
                      entity_types |-> count_entity_types(kg.entities, 1, <<>>),
                      relation_types |-> count_relation_types(kg.relations, 1, <<>>)]))

kg_stats(kg) ==
    Outcome(kg, Json([entities_count |-> Len(kg.entities),
                      relations_count |-> Len(kg.relations),
                      entity_types |-> count_entity_types(kg.entities, 1, <<>>),
                      relation_types |-> count_relation_types(kg.relations, 1, <<>>)]))

\* Mutant: the failure leaves an empty store behind.
unknown_tool_reset(kg) ==
    Outcome([entities |-> <<>>, relations |-> <<>>], Raise("ValueError"))

\* The fall-through of the if/elif chain.
unknown_tool(kg) == Outcome(kg, Raise("ValueError"))

\* call_tool: the dispatch on the tool name.  `now` is what datetime.now()
\* reads and `order` the iteration order of the neighbor set.
call_tool(kg, nm, args, now, order) ==
    IF nm = "kg_add_entity" THEN kg_add_entity(kg, args, now)
    ELSE IF nm = "kg_add_relation" THEN kg_add_relation(kg, args, now)
    ELSE IF nm = "kg_query" THEN kg_query(kg, args)
    ELSE IF nm = "kg_get_neighbors" THEN kg_get_neighbors(kg, args, order)
    ELSE IF nm = "kg_stats" THEN kg_stats(kg)
    ELSE unknown_tool(kg)

(***************************************************************************)
(* The requests explored.  A universe holds, per tool, the argument bags   *)
(* callers send, the instants datetime.now() may read, the orders in which *)
(* a set of ids may be iterated and the tool names no branch handles.      *)
(***************************************************************************)
restrict(f, keys) == [k \in keys |-> f[k]]

\* Every bag of `full`, and every such bag with some of the `omit` keys left out.
arg_bags(full, omit) ==
    {restrict(f, DOMAIN f \ D) : f \in full, D \in SUBSET omit}

\* Traversal, query and counting over graphs of three entities: the three
\* entities of the end-to-end scenario, one relation label, no properties;
\* relations along the path A - B - C in both directions, closing the cycle
\* from C to A, and from A to itself.
\* A neighbor set here has at most two members, and the two orders give
\* both of its arrangements.
Graph ==
    [add_entity |->
         {[entity |-> "A", type |-> "person"], [entity |-> "B", type |-> "person"],
          [entity |-> "C", type |-> "concept"]},
     add_relation |->
         {[from_entity |-> p[1], relation |-> "knows", to_entity |-> p[2]] :
             p \in {<<"A", "A">>, <<"A", "B">>, <<"B", "A">>,
                    <<"B", "C">>, <<"C", "B">>, <<"C", "A">>}},
     query |-> [query : {""}, query_type : {"entity"}, limit : 0..MaxLimit],
     get_neighbors |->
         arg_bags([entity : {"A", "B", "C"}, depth : -1..MaxDepth], {"depth"}),
     max_relations |-> MaxRelations,
     times |-> {1},
     orders |-> {<<"A", "B", "C">>, <<"C", "B", "A">>},
     tools |-> {"kg_delete_entity"}]

\* The two mutators over records with types, property bags and timestamps:
\* entity A is written with either type and any of three property bags
\* (one of them the default of an omitted "properties"), at either instant;
\* the two relations between A and B carry different labels.
Store ==
    [add_entity |->
         arg_bags([entity : {"A"}, type : {"person", "concept"},
                   properties : {[k1 |-> 1], [k2 |-> 2]}], {"properties"})
         \cup {[entity |-> "B", type |-> "person"]},
     add_relation |->
         {[from_entity |-> "A", relation |-> "knows", to_entity |-> "B",
           properties |-> [k1 |-> 1]],
          [from_entity |-> "B", relation |-> "related_to", to_entity |-> "A",
           properties |-> [k1 |-> 1]]},
     query |-> [query : {""}, query_type : {"entity"}, limit : {MaxLimit}],
     get_neighbors |-> [entity : {"A", "B"}, depth : {MaxDepth}],
     max_relations |-> MaxRelations,
     times |-> {1, 2},
     orders |-> {<<"A", "B">>},
     tools |-> {"kg_delete_entity"}]

\* Incomplete requests: every tool is called with its full bag and with
\* every subset of its required keys left out, the empty bag included.
Partial ==
    [add_entity |->
         arg_bags([entity : {"A", "B", "C"}, type : {"person"}], {"entity", "type"}),
     add_relation |->
         arg_bags([from_entity : {"A"}, relation : {"knows"}, to_entity : {"B"}],
                  {"from_entity", "relation", "to_entity"}),
     query |-> arg_bags([query : {""}, query_type : {"entity", "relation"}], {"query"}),
     get_neighbors |-> arg_bags([entity : {"A"}, depth : {1}], {"entity"}),
     max_relations |-> MaxRelations,
     times |-> {1},
     orders |-> {<<"A", "B">>},
     tools |-> {"kg_delete_entity", "KG_STATS"}]

\* Optional arguments given and omitted: one relation added again and again
\* until the log is longer than the default limit, queried with the limit
\* 10, a larger one and none, with either kind and none; neighbors asked
\* with depth 1, depth 2 and none.
Defaults ==
    [add_entity |-> {[entity |-> "A", type |-> "person"], [entity |-> "B", type |-> "person"]},
     add_relation |-> {[from_entity |-> "A", relation |-> "knows", to_entity |-> "B"]},
     query |-> arg_bags([query : {""}, query_type : {"entity", "relation"},
                         limit : {10, MaxLog}], {"query_type", "limit"}),
     get_neighbors |-> arg_bags([entity : {"A"}, depth : {1, 2}], {"depth"}),
     max_relations |-> MaxLog,
     times |-> {1},
     orders |-> {<<"A", "B">>},
     tools |-> {"kg_delete_entity"}]

\* Deep traversal: three entities, relations along the path A - B - C and
\* from C to itself, and depths up to two more than MaxDepth, so beyond the
\* number of entities.
Deep ==
    [add_entity |->
         {[entity |-> "A", type |-> "person"], [entity |-> "B", type |-> "person"],
          [entity |-> "C", type |-> "person"]},
     add_relation |->
         {[from_entity |-> "A", relation |-> "knows", to_entity |-> "B"],
          [from_entity |-> "B", relation |-> "knows", to_entity |-> "C"],
          [from_entity |-> "C", relation |-> "knows", to_entity |-> "C"]},
     query |-> [query : {""}, query_type : {"relation"}, limit : {MaxLimit}],
     get_neighbors |-> [entity : {"A", "B", "C"}, depth : 1..(MaxDepth + 2)],
     max_relations |-> MaxRelations,
     times |-> {1},
     orders |-> {<<"A", "B", "C">>},
     tools |-> {"kg_delete_entity"}]

\* Overwrites in place: A and B are written and written again with either
\* type, in either order; one relation shows which of them were there
\* before the last write.
Rewrite ==
    [add_entity |-> [entity : {"A", "B"}, type : {"person", "concept"}],
     add_relation |-> {[from_entity |-> "A", relation |-> "knows", to_entity |-> "B"]},
     query |-> [query : {"o", "c"}, query_type : {"entity"}, limit : 1..MaxLimit],
     get_neighbors |-> [entity : {"A"}, depth : {1}],
     max_relations |-> MaxRelations,
     times |-> {1},
     orders |-> {<<"A", "B">>},
     tools |-> {"kg_delete_entity"}]

(***************************************************************************)
(* The state machine: the store starts empty (lines 46-49) and changes     *)
(* only through call_tool, one invocation run to completion per step.      *)
(***************************************************************************)
Init ==
    /\ knowledge_graph = [entities |-> <<>>, relations |-> <<>>]
    /\ name = "(none)"
    /\ arguments = <<>>
    /\ result = [kind |-> "none", body |-> <<>>]

AddEntity(U) ==
    \E args \in U.add_entity, now \in U.times :
        LET out == call_tool(knowledge_graph, "kg_add_entity", args, now, <<>>)
        IN /\ knowledge_graph' = out.kg
           /\ name' = "kg_add_entity"
           /\ arguments' = args
           /\ result' = out.result

AddRelation(U) ==
    \E args \in U.add_relation, now \in U.times :
        LET out == call_tool(knowledge_graph, "kg_add_relation", args, now, <<>>)
        IN /\ Len(out.kg.relations) <= U.max_relations
           /\ knowledge_graph' = out.kg
           /\ name' = "kg_add_relation"
           /\ arguments' = args
           /\ result' = out.result

Query(U) ==
    \E args \in U.query :
        LET out == call_tool(knowledge_graph, "kg_query", args, 0, <<>>)
        IN /\ knowledge_graph' = out.kg
           /\ name' = "kg_query"
           /\ arguments' = args
           /\ result' = out.result

GetNeighbors(U) ==
    \E args \in U.get_neighbors, order \in U.orders :
        LET out == call_tool(knowledge_graph, "kg_get_neighbors", args, 0, order)
        IN /\ knowledge_graph' = out.kg
           /\ name' = "kg_get_neighbors"
           /\ arguments' = args
           /\ result' = out.result

Stats ==
    LET out == call_tool(knowledge_graph, "kg_stats", <<>>, 0, <<>>)
    IN /\ knowledge_graph' = out.kg
       /\ name' = "kg_stats"
       /\ arguments' = <<>>
       /\ result' = out.result

UnknownTool(U) ==
    \E nm \in U.tools :
        LET out == call_tool(knowledge_graph, nm, <<>>, 0, <<>>)
        IN /\ knowledge_graph' = out.kg
           /\ name' = nm
           /\ arguments' = <<>>
           /\ result' = out.result

Next ==
    \/ AddEntity(Graph)
    \/ AddRelation(Graph)
    \/ Query(Graph)
    \/ GetNeighbors(Graph)
    \/ Stats
    \/ UnknownTool(Graph)

Spec == Init /\ [][Next]_vars

NextStore ==
    \/ AddEntity(Store)
    \/ AddRelation(Store)
    \/ Query(Store)
    \/ GetNeighbors(Store)
    \/ Stats
    \/ UnknownTool(Store)

SpecStore == Init /\ [][NextStore]_vars

\* Keyword search: entity A matches the text "C" by its type, C by its id,
\* B not at all; one relation label is stored in upper case; the texts are
\* the empty one, one that matches entities only and one that matches
\* relations only, each differing in case from what it matches; the kinds
\* are the three the schema declares and one it does not; one call leaves
\* the kind and the limit to their defaults and one omits the text.
Search ==
    [add_entity |->
         {[entity |-> "A", type |-> "concept"], [entity |-> "B", type |-> "person"],
          [entity |-> "C", type |-> "person"]},
     add_relation |->
         {[from_entity |-> "A", relation |-> "knows", to_entity |-> "B"],
          [from_entity |-> "B", relation |-> "related_to", to_entity |-> "A"],
          [from_entity |-> "A", relation |-> "KNOWS", to_entity |-> "B"]},
     query |-> [query : {"", "C", "KNOWS"},
                query_type : {"entity", "relation", "path", "graph"},
                limit : -1..MaxLimit]
                   \cup {[query |-> "C"], [query_type |-> "relation"]},
     get_neighbors |-> [entity : {"A", "C"}, depth : {1}],
     max_relations |-> MaxRelations,
     times |-> {1},
     orders |-> {<<"A", "B", "C">>},
     tools |-> {"kg_delete_entity"}]

NextSearch ==
    \/ AddEntity(Search)
    \/ AddRelation(Search)
    \/ Query(Search)
    \/ GetNeighbors(Search)
    \/ Stats
    \/ UnknownTool(Search)

SpecSearch == Init /\ [][NextSearch]_vars

\* The calls of the end-to-end scenario of the specification's section 8,
\* in any order and any number of times.
Scenario ==
    [add_entity |->
         {[entity |-> "A", type |-> "person"], [entity |-> "B", type |-> "person"],
          [entity |-> "C", type |-> "concept"]},
     add_relation |->
         {[from_entity |-> "A", relation |-> "knows", to_entity |-> "B"],
          [from_entity |-> "B", relation |-> "related_to", to_entity |-> "C"]},
     query |-> [query : {""}, query_type : {"entity"}, limit : {MaxLimit}],
     get_neighbors |-> [entity : {"A"}, depth : 1..MaxDepth],
     max_relations |-> MaxRelations,
     times |-> {1},
     orders |-> {<<"A", "B", "C">>, <<"C", "B", "A">>},
     tools |-> {"kg_delete_entity"}]

NextScenario ==
    \/ AddEntity(Scenario)
    \/ AddRelation(Scenario)
    \/ Query(Scenario)
    \/ GetNeighbors(Scenario)
    \/ Stats
    \/ UnknownTool(Scenario)

SpecScenario == Init /\ [][NextScenario]_vars

NextPartial ==
    \/ AddEntity(Partial)
    \/ AddRelation(Partial)
    \/ Query(Partial)
    \/ GetNeighbors(Partial)
    \/ Stats
    \/ UnknownTool(Partial)

SpecPartial == Init /\ [][NextPartial]_vars

NextDefaults ==
    \/ AddEntity(Defaults)
    \/ AddRelation(Defaults)
    \/ Query(Defaults)
    \/ GetNeighbors(Defaults)
    \/ Stats
    \/ UnknownTool(Defaults)

SpecDefaults == Init /\ [][NextDefaults]_vars

NextDeep ==
    \/ AddEntity(Deep)
    \/ AddRelation(Deep)
    \/ Query(Deep)
    \/ GetNeighbors(Deep)
    \/ Stats
    \/ UnknownTool(Deep)

SpecDeep == Init /\ [][NextDeep]_vars

NextRewrite ==
    \/ AddEntity(Rewrite)
    \/ AddRelation(Rewrite)
    \/ Query(Rewrite)
    \/ GetNeighbors(Rewrite)
    \/ Stats
    \/ UnknownTool(Rewrite)

SpecRewrite == Init /\ [][NextRewrite]_vars

(***************************************************************************)
(* Vocabulary of the properties.                                           *)
(***************************************************************************)
entities == knowledge_graph.entities
relations == knowledge_graph.relations

\* An "Error: Entity '<id>' not found ..." message returned as text.
IsEntityNotFound(res, id) ==
    /\ res.kind = "text"
    /\ res.body[1] = "Error: Entity '"
    /\ res.body[2] = id

\* The last call was kg_add_relation with its three required keys.
AddRelationCalled ==
    /\ name = "kg_add_relation"
    /\ has_all(arguments, {"from_entity", "to_entity", "relation"})

\* The last call was kg_add_entity with its two required keys.
AddEntityCalled ==
    /\ name = "kg_add_entity"
    /\ has_all(arguments, {"entity", "type"})

(***************************************************************************)
(* C1.  In every reachable state, whatever calls were made and whether     *)
(* they succeeded or failed, every record of the relation log has its      *)
(* `from` and its `to` among the keys of the entity map.                   *)
(***************************************************************************)
C1_EndpointsExist ==
    \A i \in 1..Len(relations) :
        /\ dict_has(entities, relations[i].from)
        /\ dict_has(entities, relations[i].to)

\* A relation is in the log and a later kg_add_relation was turned down.
C1_Witness ==
    /\ Len(relations) >= 1
    /\ AddRelationCalled
    /\ result.kind = "text"
    /\ result.body[1] = "Error: Entity '"

(***************************************************************************)
(* C2.  kg_add_relation naming a source or a target that is no key of the  *)
(* entity map returns the "Error: Entity ... not found" text for the first *)
(* missing endpoint (a returned value, nothing is raised) and leaves the   *)
(* entity map and the relation log as they were.                           *)
(***************************************************************************)
C2_MissingEndpointRejected ==
    [][(/\ AddRelationCalled'
        /\ \/ ~dict_has(entities, arguments'["from_entity"])
           \/ ~dict_has(entities, arguments'["to_entity"]))
       => /\ IsEntityNotFound(result',
                 IF ~dict_has(entities, arguments'["from_entity"])
                 THEN arguments'["from_entity"] ELSE arguments'["to_entity"])
          /\ knowledge_graph' = knowledge_graph]_vars

\* The source exists, the target does not, and the call was turned down
\* on a store that already holds a relation.
C2_Witness ==
    /\ AddRelationCalled
    /\ dict_has(entities, arguments["from_entity"])
    /\ ~dict_has(entities, arguments["to_entity"])
    /\ IsEntityNotFound(result, arguments["to_entity"])
    /\ Len(relations) >= 1

(***************************************************************************)
(* C3.  kg_add_relation between two existing entities succeeds and appends *)
(* exactly one record, built from its arguments, to the log: the count     *)
(* grows by one even when a record with the same from, label and to is     *)
(* already there, so the same call issued twice leaves two such records.   *)
(***************************************************************************)
C3_AppendsOne ==
    [][(/\ AddRelationCalled'
        /\ dict_has(entities, arguments'["from_entity"])
        /\ dict_has(entities, arguments'["to_entity"]))
       => /\ Len(relations') = Len(relations) + 1
          /\ SubSeq(relations', 1, Len(relations)) = relations
          /\ LET added == relations'[Len(relations')]
             IN /\ added.from = arguments'["from_entity"]
                /\ added.relation = arguments'["relation"]
                /\ added.to = arguments'["to_entity"]
                /\ added.properties = args_get(arguments', "properties", EmptyBag)
          /\ entities' = entities
          /\ result'.kind = "text"
          /\ result'.body[1] = "Added relation: "]_vars

\* The same call was issued twice: two records with one from, label and to.
C3_Witness ==
    /\ AddRelationCalled
    /\ Len(relations) = 2
    /\ relations[1].from = relations[2].from
    /\ relations[1].relation = relations[2].relation
    /\ relations[1].to = relations[2].to
    /\ relations[2].from = arguments["from_entity"]
    /\ relations[2].to = arguments["to_entity"]

(***************************************************************************)
(* C4.  After kg_add_entity(e, t, p) the record stored under e has type t  *)
(* and properties exactly p (the empty bag when none were given), also     *)
(* when e was there before with another type and other properties: the     *)
(* record is replaced, no key of the old bag survives unless p has it.     *)
(***************************************************************************)
C4_RecordReplaced ==
    AddEntityCalled =>
        /\ dict_has(entities, arguments["entity"])
        /\ dict_get(entities, arguments["entity"]).type = arguments["type"]
        /\ dict_get(entities, arguments["entity"]).properties
               = args_get(arguments, "properties", EmptyBag)
        /\ DOMAIN dict_get(entities, arguments["entity"]).properties
               = DOMAIN args_get(arguments, "properties", EmptyBag)

\* A is written again (it keeps its first place in the dict, before B) with
\* a bag that has k2 and not k1; the relation added in between shows that
\* the earlier write of A is a different call.
C4_Witness ==
    /\ AddEntityCalled
    /\ arguments["entity"] = "A"
    /\ Len(entities) = 2
    /\ entities[1].id = "A"
    /\ Len(relations) >= 1
    /\ "properties" \in DOMAIN arguments
    /\ DOMAIN arguments["properties"] = {"k2"}
    /\ arguments["type"] = "concept"

(***************************************************************************)
(* Vocabulary of the traversal properties.                                 *)
(***************************************************************************)
\* The last call was kg_get_neighbors with the key "entity".
NeighborsCalled == name = "kg_get_neighbors" /\ has_all(arguments, {"entity"})
start == arguments["entity"]
depth == args_get(arguments, "depth", 1)

\* The ids of a returned neighbor list.
ids_of(neighbor_list) == {neighbor_list[i].id : i \in 1..Len(neighbor_list)}

\* The ids kg_get_neighbors(e, d) returns on the current store.
answer_ids(e, d) ==
    ids_of(kg_get_neighbors(knowledge_graph, [entity |-> e, depth |-> d],
                            <<"A", "B", "C">>).result.body.neighbors)

\* The other endpoints of the relations that start or end at e.
linked(e) ==
    ({relations[i].to : i \in {j \in 1..Len(relations) : relations[j].from = e}}
       \cup {relations[i].from : i \in {j \in 1..Len(relations) : relations[j].to = e}})
    \ {e}

(***************************************************************************)
(* C5.  For an existing entity e, kg_get_neighbors(e, depth 1) returns,    *)
(* each once, exactly the entities at the other end of a relation whose    *)
(* from or to is e, in either direction, e itself left out.                *)
(***************************************************************************)
C5_DepthOneIsLinked ==
    (NeighborsCalled /\ dict_has(entities, start) /\ depth = 1) =>
        /\ result.kind = "json"
        /\ ids_of(result.body.neighbors) = linked(start)
        /\ Len(result.body.neighbors) = Cardinality(linked(start))

\* B is asked at depth 1 with A -> B and B -> C in the log: one neighbor
\* per direction.
C5_Witness ==
    /\ NeighborsCalled /\ start = "B" /\ depth = 1
    /\ \E i, j \in 1..Len(relations) :
           /\ relations[i].from = "A" /\ relations[i].to = "B"
           /\ relations[j].from = "B" /\ relations[j].to = "C"
    /\ ids_of(result.body.neighbors) = {"A", "C"}

(***************************************************************************)
(* C6.  For an existing entity e and a depth k >= 1, the ids returned by   *)
(* kg_get_neighbors(e, k) include every id kg_get_neighbors(e, k - 1)      *)
(* returns on the same store.                                              *)
(***************************************************************************)
C6_DeeperIsSuperset ==
    (NeighborsCalled /\ dict_has(entities, start) /\ depth >= 1) =>
        /\ result.kind = "json"
        /\ answer_ids(start, depth - 1) \subseteq ids_of(result.body.neighbors)

\* Depth 2 returns more than depth 1, and depth 1 returns something.
C6_Witness ==
    /\ NeighborsCalled /\ dict_has(entities, start) /\ depth = 2
    /\ answer_ids(start, 1) # {}
    /\ answer_ids(start, 1) # ids_of(result.body.neighbors)

(***************************************************************************)
(* C7.  For an existing entity e, kg_get_neighbors(e, depth 0) returns the *)
(* result object with an empty neighbor list, not an error.                *)
(***************************************************************************)
C7_DepthZeroEmpty ==
    (NeighborsCalled /\ dict_has(entities, start) /\ depth = 0) =>
        /\ result.kind = "json"
        /\ result.body = [entity |-> start, depth |-> 0, neighbors |-> <<>>]

\* Depth 0 is asked of an entity that has a neighbor.
C7_Witness ==
    /\ NeighborsCalled /\ dict_has(entities, start) /\ depth = 0
    /\ linked(start) # {}
    /\ result.kind = "json"

(***************************************************************************)
(* C8.  kg_get_neighbors on an entity that is no key of the entity map     *)
(* returns the "Error: Entity ... not found" text for every depth (given,  *)
(* omitted, zero or negative) and leaves the store unchanged.              *)
(***************************************************************************)
C8_UnknownStartRejected ==
    [][(NeighborsCalled' /\ ~dict_has(entities, start'))
       => /\ IsEntityNotFound(result', start')
          /\ Len(result'.body) = 3
          /\ knowledge_graph' = knowledge_graph]_vars

\* C is asked at depth 2 before it was added, on a store with a relation.
C8_Witness ==
    /\ NeighborsCalled /\ ~dict_has(entities, start) /\ depth = 2
    /\ Len(relations) >= 1
    /\ IsEntityNotFound(result, start)

(***************************************************************************)
(* C9, as claimed.  kg_get_neighbors(e, depth) with a negative depth on an *)
(* existing entity e fails: it does not return a neighbor list.            *)
(***************************************************************************)
C9_NegativeDepthFails ==
    (NeighborsCalled /\ dict_has(entities, start) /\ depth < 0) =>
        result.kind # "json"

(***************************************************************************)
(* C9, as amended.  kg_get_neighbors(e, depth) with a negative depth on an *)
(* existing entity e runs no traversal round and returns the result object *)
(* with an empty neighbor list, as depth 0 does; no error is reported.     *)
(***************************************************************************)
C9_NegativeDepthEmpty ==
    (NeighborsCalled /\ dict_has(entities, start) /\ depth < 0) =>
        /\ result.kind = "json"
        /\ result.body = [entity |-> start, depth |-> depth, neighbors |-> <<>>]

\* A negative depth is asked of an entity that has a neighbor.
C9_Witness ==
    /\ NeighborsCalled /\ dict_has(entities, start) /\ depth < 0
    /\ linked(start) # {}
    /\ Len(relations) = MaxRelations

(***************************************************************************)
(* C10, as claimed.  For every N >= 0, N = 0 included, kg_query with the   *)
(* empty text and query_type "entity" (given or by default) and limit N    *)
(* returns exactly min(N, number of keys of the entity map) entities.      *)
(***************************************************************************)
C10_EmptyQueryCount ==
    (/\ name = "kg_query"
     /\ has_all(arguments, {"query"})
     /\ arguments["query"] = ""
     /\ args_get(arguments, "query_type", "entity") = "entity"
     /\ args_get(arguments, "limit", 10) >= 0)
    => /\ result.kind = "json"
       /\ Len(result.body.results) =
              IF args_get(arguments, "limit", 10) <= Len(entities)
              THEN args_get(arguments, "limit", 10) ELSE Len(entities)

(***************************************************************************)
(* Vocabulary of the query properties.                                     *)
(***************************************************************************)
\* The last call was kg_query with the key "query".
QueryCalled == name = "kg_query" /\ has_all(arguments, {"query"})
query_text == arguments["query"]
query_kind == args_get(arguments, "query_type", "entity")
query_limit == args_get(arguments, "limit", 10)

\* The lower-cased text t is a substring of the lower-cased string s.
text_in(t, s) == contains(lower(s), lower(t))

\* The records of the store the text matches, in the order of the
\* collection, as kg_query reports them.
matching_entities(t) ==
    LET hits == SelectSeq(entities,
                    LAMBDA it : text_in(t, it.id) \/ text_in(t, it.data.type))
    IN [i \in 1..Len(hits) |->
           [id |-> hits[i].id, type |-> hits[i].data.type,
            properties |-> hits[i].data.properties]]

matching_relations(t) ==
    LET hits == SelectSeq(relations, LAMBDA rel : text_in(t, rel.relation))
    IN [i \in 1..Len(hits) |->
           [from |-> hits[i].from, relation |-> hits[i].relation, to |-> hits[i].to]]

matching(t, k) ==
    IF k = "entity" THEN matching_entities(t) ELSE matching_relations(t)

\* The first n members of a sequence (all of it when it has fewer).
first(seq, n) == SubSeq(seq, 1, IF n <= Len(seq) THEN n ELSE Len(seq))

(***************************************************************************)
(* C11, as claimed.  kg_query with a limit <= 0 returns an empty result    *)
(* sequence for every text and for both kinds, entity and relation,        *)
(* whatever the store holds, also when records match the text.             *)
(***************************************************************************)
C11_NonPositiveLimitEmpty ==
    (QueryCalled /\ query_kind \in {"entity", "relation"} /\ query_limit <= 0) =>
        /\ result.kind = "json"
        /\ result.body.results = <<>>

(***************************************************************************)
(* C12.  For a limit >= 1, kg_query returns exactly the first              *)
(* min(limit, number of matches) matching records in the order of the      *)
(* collection (dict order for entities, log order for relations): an       *)
(* entity matches when the lower-cased text is a substring of its          *)
(* lower-cased id or type, a relation when it is one of its lower-cased    *)
(* label; nothing else is returned and no earlier match is skipped.        *)
(***************************************************************************)
C12_FirstMatchesInOrder ==
    (QueryCalled /\ query_kind \in {"entity", "relation"} /\ query_limit >= 1) =>
        /\ result.kind = "json"
        /\ result.body.query = query_text
        /\ result.body.results = first(matching(query_text, query_kind), query_limit)

\* Text "C" with limit 1 on a store whose first entity, B, does not match
\* and whose other two do: the one result is the earlier of the two.
C12_Witness ==
    /\ QueryCalled /\ query_kind = "entity" /\ query_text = "C" /\ query_limit = 1
    /\ Len(entities) = 3
    /\ entities[1].id = "B"
    /\ Len(matching_entities("C")) = 2
    /\ Len(result.body.results) = 1
    /\ result.body.results[1].id = entities[2].id

(***************************************************************************)
(* C13.  After any sequence of calls kg_stats reports as entity count the  *)
(* number of distinct ids ever passed to a successful kg_add_entity and as *)
(* relation count the number of successful kg_add_relation calls: both are *)
(* 0 on the empty store; every step adds to the key set exactly the id a   *)
(* kg_add_entity was given (nothing new when the id is there already, and  *)
(* nothing in any other step) and adds to the log length 1 exactly when a  *)
(* kg_add_relation reports "Added relation"; and what kg_stats returns on  *)
(* the store reached is the size of that key set and that length.          *)
(***************************************************************************)
C13_CountsTrackAdds ==
    /\ kg_stats(knowledge_graph).result.body.entities_count = 0
    /\ kg_stats(knowledge_graph).result.body.relations_count = 0
    /\ [][LET stats == kg_stats(knowledge_graph').result.body
              added_ids == IF AddEntityCalled' /\ result'.kind = "text"
                           THEN {arguments'["entity"]} ELSE {}
              added_relations ==
                  IF AddRelationCalled' /\ result'.kind = "text"
                                        /\ result'.body[1] = "Added relation: "
                  THEN 1 ELSE 0
          IN /\ dict_keys(entities') = dict_keys(entities) \cup added_ids
             /\ Len(relations') = Len(relations) + added_relations
             /\ stats.entities_count = Cardinality(dict_keys(entities'))
             /\ stats.relations_count = Len(relations')
             /\ name' = "kg_stats" =>
                    result'.kind = "json" /\ result'.body = stats]_vars

\* kg_stats is called on a store of 2 entities whose log holds two relations
\* from the same entity, both added at another time than the last write of
\* the second entity: it reports 2 entities and 2 relations.
C13_Witness ==
    /\ name = "kg_stats"
    /\ result.kind = "json"
    /\ result.body.entities_count = 2
    /\ result.body.relations_count = 2
    /\ entities[1].id = "B"
    /\ relations[1].from = relations[2].from
    /\ relations[1].created_at # entities[2].data.created_at
    /\ relations[2].created_at # entities[2].data.created_at

(***************************************************************************)
(* C14.  From the empty store, after add_entity(A, person),                *)
(* add_entity(B, person), add_entity(C, concept), add_relation(A knows B)  *)
(* and add_relation(B related_to C): kg_get_neighbors(A, 1) is exactly     *)
(* [{B, person}]; kg_get_neighbors(A, 2) holds, in whatever order the set  *)
(* is iterated, {B, person} and {C, concept} and nothing else; kg_stats    *)
(* reports 3 entities, 2 relations, the types {person: 2, concept: 1} and  *)
(* the labels {knows: 1, related_to: 1}.                                   *)
(***************************************************************************)
ScenarioStore ==
    /\ [i \in 1..Len(entities) |-> <<entities[i].id, entities[i].data.type>>]
           = << <<"A", "person">>, <<"B", "person">>, <<"C", "concept">> >>
    /\ [i \in 1..Len(relations) |->
            <<relations[i].from, relations[i].relation, relations[i].to>>]
           = << <<"A", "knows", "B">>, <<"B", "related_to", "C">> >>

neighbor_set(neighbor_list) == {neighbor_list[i] : i \in 1..Len(neighbor_list)}

C14_Scenario ==
    ScenarioStore =>
        /\ (NeighborsCalled /\ start = "A" /\ depth = 1) =>
               /\ result.kind = "json"
               /\ result.body.neighbors = <<[id |-> "B", type |-> "person"]>>
        /\ (NeighborsCalled /\ start = "A" /\ depth = 2) =>
               /\ result.kind = "json"
               /\ Len(result.body.neighbors) = 2
               /\ neighbor_set(result.body.neighbors)
                      = {[id |-> "B", type |-> "person"], [id |-> "C", type |-> "concept"]}
        /\ name = "kg_stats" =>
               /\ result.kind = "json"
               /\ result.body = [entities_count |-> 3,
                                 relations_count |-> 2,
                                 entity_types |-> [person |-> 2, concept |-> 1],
                                 relation_types |-> [knows |-> 1, related_to |-> 1]]
        /\ kg_stats(knowledge_graph).result.body.entity_types
               = [person |-> 2, concept |-> 1]

\* The scenario was played and kg_get_neighbors(A, 2) answered C before B.
C14_Witness ==
    /\ ScenarioStore
    /\ NeighborsCalled /\ start = "A" /\ depth = 2
    /\ result.body.neighbors[1].id = "C"

\* The other two calls of the scenario are made on the scenario store too.
C14_StatsCalled == ScenarioStore /\ name = "kg_stats"
C14_DepthOneCalled == ScenarioStore /\ NeighborsCalled /\ depth = 1

(***************************************************************************)
(* C15.  For an existing entity e and a depth k >= 0, on every reachable   *)
(* store, a self-relation e -> e or a cycle through e included, the result *)
(* of kg_get_neighbors(e, k) never contains e.                             *)
(***************************************************************************)
C15_StartExcluded ==
    (NeighborsCalled /\ dict_has(entities, start) /\ depth >= 0) =>
        /\ result.kind = "json"
        /\ start \notin ids_of(result.body.neighbors)

\* A has a self-relation and a relation to B, which the second round walks
\* back to A; the answer of depth 2 holds B only.
C15_Witness ==
    /\ NeighborsCalled /\ start = "A" /\ depth = 2
    /\ \E i \in 1..Len(relations) : relations[i].from = "A" /\ relations[i].to = "A"
    /\ \E i \in 1..Len(relations) : relations[i].from = "A" /\ relations[i].to = "B"
    /\ result.kind = "json"
    /\ ids_of(result.body.neighbors) = {"B"}

(***************************************************************************)
(* C16.  kg_query, kg_get_neighbors and kg_stats leave the store as it     *)
(* was, whatever their arguments and whether they return a result or an    *)
(* error: entities and relations after the call equal those before it.     *)
(* Only kg_add_entity and kg_add_relation ever change the store.           *)
(***************************************************************************)
C16_ReadsLeaveStore ==
    [][/\ name' \in {"kg_query", "kg_get_neighbors", "kg_stats"} =>
              /\ entities' = entities
              /\ relations' = relations
       /\ knowledge_graph' # knowledge_graph =>
              name' \in {"kg_add_entity", "kg_add_relation"}]_vars

\* kg_get_neighbors was refused for an id that the store, which holds an
\* entity and a relation, does not have.
C16_Witness ==
    /\ NeighborsCalled
    /\ ~dict_has(entities, start)
    /\ IsEntityNotFound(result, start)
    /\ Len(entities) >= 2
    /\ Len(relations) >= 1

\* kg_query and kg_stats are called on such a store too, kg_query also
\* without its text, which raises.
C16_QueryCalled == QueryCalled /\ Len(relations) >= 1 /\ result.kind = "json"
C16_QueryRaised == name = "kg_query" /\ Len(relations) >= 1 /\ result.kind = "raise"
C16_StatsCalled == name = "kg_stats" /\ Len(relations) >= 1

(***************************************************************************)
(* C17.  The store only grows: by every step the relation log before it is *)
(* a prefix of the log after it (no record changed, moved or removed) and  *)
(* the ids before it are among the ids after it; hence the same holds      *)
(* between any state and every later one.                                  *)
(***************************************************************************)
C17_StoreOnlyGrows ==
    [][/\ Len(relations) <= Len(relations')
       /\ SubSeq(relations', 1, Len(relations)) = relations
       /\ dict_keys(entities) \subseteq dict_keys(entities')]_vars

\* A relation was appended behind a different one.
C17_Witness ==
    /\ AddRelationCalled
    /\ Len(relations) = 2
    /\ relations[1].from # relations[2].from
    /\ relations[2].from = arguments["from_entity"]
    /\ relations[2].to = arguments["to_entity"]

(***************************************************************************)
(* C19.  Retrying kg_add_entity is idempotent, retrying kg_add_relation is *)
(* not: when kg_add_entity(e, t, p) is applied again right after itself,   *)
(* the entities, created_at set aside, and the relation log are what they  *)
(* were after the first application; when a successful                     *)
(* kg_add_relation(a, r, b) is applied again right after itself, it        *)
(* succeeds again and the log is one record longer than after the first.   *)
(***************************************************************************)
undated(d) ==
    [i \in 1..Len(d) |->
        [id |-> d[i].id, type |-> d[i].data.type, properties |-> d[i].data.properties]]

C19_RetryEntityNotRelation ==
    [][/\ (AddEntityCalled /\ AddEntityCalled' /\ arguments' = arguments) =>
              /\ undated(entities') = undated(entities)
              /\ relations' = relations
       /\ (/\ AddRelationCalled /\ result.kind = "text"
           /\ result.body[1] = "Added relation: "
           /\ AddRelationCalled' /\ arguments' = arguments) =>
              /\ result' = result
              /\ Len(relations') = Len(relations) + 1
              /\ SubSeq(relations', 1, Len(relations)) = relations]_vars

\* The relation was added at time 1 and, with the same arguments, again at
\* time 2: the log holds it twice.
C19_Witness ==
    /\ AddRelationCalled
    /\ Len(relations) = 2
    /\ relations[1].created_at = 1
    /\ relations[2].created_at = 2
    /\ [relations[1] EXCEPT !.created_at = 2] = relations[2]
    /\ relations[2].from = arguments["from_entity"]

\* An entity written at time 1 was written again at time 2.
C19_EntityRetried ==
    /\ AddEntityCalled
    /\ Len(entities) = 2
    /\ entities[1].id = arguments["entity"]
    /\ entities[1].data.created_at = 2
    /\ entities[2].data.created_at = 1

(***************************************************************************)
(* C20, as claimed.  A kg_query call whose query_type is outside the       *)
(* declared set entity / relation / path fails: it does not return a       *)
(* normal result object.                                                   *)
(***************************************************************************)
C20_MalformedKindFails ==
    (QueryCalled /\ query_kind \notin {"entity", "relation", "path"}) =>
        result.kind # "json"

(***************************************************************************)
(* C21.  A request that omits a required field (entity or type of          *)
(* kg_add_entity; from_entity, relation or to_entity of kg_add_relation;   *)
(* query of kg_query; entity of kg_get_neighbors) fails, whichever field   *)
(* or fields are missing, and mutates nothing: entities and relations are  *)
(* after the failure what they were before it.                             *)
(***************************************************************************)
required(tool) ==
    IF tool = "kg_add_entity" THEN {"entity", "type"}
    ELSE IF tool = "kg_add_relation" THEN {"from_entity", "relation", "to_entity"}
    ELSE IF tool = "kg_query" THEN {"query"}
    ELSE IF tool = "kg_get_neighbors" THEN {"entity"}
    ELSE {}

C21_MissingFieldMutatesNothing ==
    [][~has_all(arguments', required(name')) =>
           /\ result'.kind = "raise"
           /\ entities' = entities
           /\ relations' = relations]_vars

\* kg_add_entity was called with an id the store does not have and without
\* a type, on a store that holds an entity and a relation: it raised.
C21_Witness ==
    /\ name = "kg_add_entity"
    /\ DOMAIN arguments = {"entity"}
    /\ ~dict_has(entities, arguments["entity"])
    /\ result.kind = "raise"
    /\ Len(relations) >= 1

\* kg_add_relation was called without a label between two entities the
\* store has: it raised.
C21_LabelMissing ==
    /\ dict_keys(entities) = {"A", "B", "C"}
    /\ name = "kg_add_relation"
    /\ DOMAIN arguments = {"from_entity", "to_entity"}
    /\ result.kind = "raise"

(***************************************************************************)
(* C22.  A call with a tool name the dispatch does not recognise fails     *)
(* hard, for that request only: it raises, entities and relations stay as  *)
(* they were, and the request after it is served on that unchanged store   *)
(* (a kg_stats that follows counts what was there before the failure, an   *)
(* add that follows adds to it).                                           *)
(***************************************************************************)
known_tools ==
    {"kg_add_entity", "kg_add_relation", "kg_query", "kg_get_neighbors", "kg_stats"}

C22_UnknownToolFailsAlone ==
    [][/\ name' \notin known_tools =>
              /\ result' = Raise("ValueError")
              /\ entities' = entities
              /\ relations' = relations
       /\ (name \notin known_tools /\ name' = "kg_stats") =>
              /\ result'.kind = "json"
              /\ result'.body.entities_count = Cardinality(dict_keys(entities))
              /\ result'.body.relations_count = Len(relations)
       /\ (name \notin known_tools /\ AddEntityCalled') =>
              dict_keys(entities') = dict_keys(entities) \cup {arguments'["entity"]}]_vars

\* A name that differs from a tool's only in case was called on a store
\* with three entities and a relation: it raised.
C22_Witness ==
    /\ name = "KG_STATS"
    /\ result = Raise("ValueError")
    /\ Len(entities) = 3
    /\ Len(relations) >= 1

(***************************************************************************)
(* C23.  Omitted optional arguments take their documented defaults:        *)
(* kg_get_neighbors without depth returns what it returns with depth 1;    *)
(* kg_query without limit returns what it returns with limit 10, at most   *)
(* 10 results; kg_query without query_type returns what it returns with    *)
(* query_type "entity".                                                    *)
(***************************************************************************)
with(args, key, value) == (key :> value) @@ args

C23_DefaultsApply ==
    /\ (NeighborsCalled /\ "depth" \notin DOMAIN arguments) =>
           \E order \in Defaults.orders :
               result = kg_get_neighbors(knowledge_graph, with(arguments, "depth", 1),
                                         order).result
    /\ (QueryCalled /\ "limit" \notin DOMAIN arguments) =>
           /\ result = kg_query(knowledge_graph, with(arguments, "limit", 10)).result
           /\ Len(result.body.results) <= 10
    /\ (QueryCalled /\ "query_type" \notin DOMAIN arguments) =>
           result = kg_query(knowledge_graph, with(arguments, "query_type", "entity")).result

\* The log holds more relations than the default limit and a relation query
\* without limit returned 10 of them.
C23_Witness ==
    /\ QueryCalled
    /\ DOMAIN arguments = {"query", "query_type"}
    /\ query_kind = "relation"
    /\ Len(relations) > 10
    /\ Len(result.body.results) = 10

\* A query without kind returned the entities; neighbors without depth
\* returned the one neighbor.
C23_KindOmitted ==
    /\ QueryCalled
    /\ "query_type" \notin DOMAIN arguments
    /\ Len(relations) >= 1
    /\ Len(result.body.results) = 2
    /\ result.body.results[1].type = "person"
C23_DepthOmitted ==
    /\ NeighborsCalled
    /\ "depth" \notin DOMAIN arguments
    /\ result.kind = "json"
    /\ result.body.depth = 1
    /\ Len(result.body.neighbors) = 1

(***************************************************************************)
(* C24.  For an existing entity e and a depth k >= 0,                      *)
(* kg_get_neighbors(e, k) returns exactly the entities other than e whose  *)
(* shortest-path distance from e, in the undirected graph the relation log *)
(* induces, is at most k: the scan by rounds, whose frontier is not pruned *)
(* of visited ids, returns the ids of a breadth-first search that keeps    *)
(* its visited set, no more and no fewer, each once.                       *)
(***************************************************************************)
\* The ids joined to a member of S by a relation, in either direction.
adjacent(S) ==
    {relations[i].to : i \in {j \in 1..Len(relations) : relations[j].from \in S}}
        \cup {relations[i].from : i \in {j \in 1..Len(relations) : relations[j].to \in S}}

\* The ids at distance at most k from e.
RECURSIVE within(_, _)
within(e, k) ==
    IF k = 0 THEN {e}
    ELSE LET ball == within(e, k - 1) IN ball \cup adjacent(ball)

C24_NeighborsAreBall ==
    (NeighborsCalled /\ dict_has(entities, start) /\ depth >= 0) =>
        /\ result.kind = "json"
        /\ ids_of(result.body.neighbors) = within(start, depth) \ {start}
        /\ Len(result.body.neighbors) = Cardinality(within(start, depth) \ {start})

\* On the path A - B - C the second round starts from B and finds A again
\* beside C; the answer for A at depth 2 is B and C.
C24_Witness ==
    /\ NeighborsCalled /\ start = "A" /\ depth = 2
    /\ Len(relations) = 2
    /\ linked("A") = {"B"}
    /\ linked("C") = {"B"}
    /\ result.kind = "json"
    /\ ids_of(result.body.neighbors) = {"B", "C"}

(***************************************************************************)
(* C25.  The traversal reaches a fixed point without error: for an entity  *)
(* e that no relation touches, kg_get_neighbors(e, k) is empty for every   *)
(* k >= 1; for an existing entity e and a k that is at least the number of *)
(* entities, kg_get_neighbors(e, k) equals kg_get_neighbors(e, k + 1) and  *)
(* is the undirected connected component of e without e.                   *)
(***************************************************************************)
\* The closure of S under adjacency.
RECURSIVE component(_)
component(S) ==
    IF adjacent(S) \subseteq S THEN S ELSE component(S \cup adjacent(S))

C25_FixedPoint ==
    /\ (NeighborsCalled /\ dict_has(entities, start) /\ depth >= 1
                        /\ adjacent({start}) = {}) =>
           /\ result.kind = "json"
           /\ result.body.neighbors = <<>>
    /\ (NeighborsCalled /\ dict_has(entities, start) /\ depth >= Len(entities)) =>
           /\ result.kind = "json"
           /\ ids_of(result.body.neighbors) = component({start}) \ {start}
           /\ answer_ids(start, depth + 1) = ids_of(result.body.neighbors)

\* On the path A - B - C, kg_get_neighbors(A, 3) returned the component of
\* A, which depth 1 does not reach.
C25_Witness ==
    /\ NeighborsCalled /\ start = "A" /\ depth = 3
    /\ Len(entities) = 3
    /\ linked("A") = {"B"}
    /\ result.kind = "json"
    /\ ids_of(result.body.neighbors) = {"B", "C"}

\* An entity that no relation touches was asked at depth 2, beside two
\* related entities.
C25_Isolated ==
    /\ NeighborsCalled /\ start = "C" /\ depth = 2
    /\ Len(relations) >= 1
    /\ adjacent({"C"}) = {}
    /\ result.kind = "json"
    /\ result.body.neighbors = <<>>

(***************************************************************************)
(* C26.  The drop of unresolved ids in kg_get_neighbors is never           *)
(* exercised: every id the traversal accumulates is a key of entities, so  *)
(* the result lists every visited id but the start, and the type reported  *)
(* for a neighbor is the type of its current record, the one the latest    *)
(* kg_add_entity of that id wrote, also when that was after the relation   *)
(* was added.                                                              *)
(***************************************************************************)
visited == neighbor_ids(knowledge_graph, start, depth)

C26_NoNeighborDropped ==
    (NeighborsCalled /\ dict_has(entities, start)) =>
        /\ result.kind = "json"
        /\ visited \subseteq dict_keys(entities)
        /\ ids_of(result.body.neighbors) = visited
        /\ Len(result.body.neighbors) = Cardinality(visited)
        /\ \A i \in 1..Len(result.body.neighbors) :
               result.body.neighbors[i].type
                   = dict_get(entities, result.body.neighbors[i].id).type

\* A was written at time 2, after the relation of time 1 that joins it to
\* B, with the type concept; the neighbors of B list A as a concept.
C26_Witness ==
    /\ NeighborsCalled /\ start = "B"
    /\ Len(relations) >= 1
    /\ relations[1].created_at = 1
    /\ dict_has(entities, "A")
    /\ dict_get(entities, "A").created_at = 2
    /\ dict_get(entities, "A").type = "concept"
    /\ result.kind = "json"
    /\ result.body.neighbors = <<[id |-> "A", type |-> "concept"]>>

(***************************************************************************)
(* C27.  kg_stats is computed from the current store: in every reachable   *)
(* state its entity-type histogram maps each type to the number of current *)
(* entity records of that type (an entity overwritten with a new type      *)
(* counts under the new type only), its relation-label histogram maps each *)
(* label to the number of relation records with that label, no entry is 0, *)
(* and the counts of each histogram sum to entities_count and to           *)
(* relations_count.                                                        *)
(***************************************************************************)
RECURSIVE total(_, _)
total(hist, keys) ==
    IF keys = {} THEN 0
    ELSE LET k == CHOOSE x \in keys : TRUE
         IN hist[k] + total(hist, keys \ {k})

records_of_type(t) == {i \in 1..Len(entities) : entities[i].data.type = t}
records_of_label(l) == {i \in 1..Len(relations) : relations[i].relation = l}

stats_of_store(body) ==
    /\ body.entities_count = Len(entities)
    /\ body.relations_count = Len(relations)
    /\ DOMAIN body.entity_types = {entities[i].data.type : i \in 1..Len(entities)}
    /\ DOMAIN body.relation_types = {relations[i].relation : i \in 1..Len(relations)}
    /\ \A t \in DOMAIN body.entity_types :
           /\ body.entity_types[t] = Cardinality(records_of_type(t))
           /\ body.entity_types[t] # 0
    /\ \A l \in DOMAIN body.relation_types :
           /\ body.relation_types[l] = Cardinality(records_of_label(l))
           /\ body.relation_types[l] # 0
    /\ total(body.entity_types, DOMAIN body.entity_types) = body.entities_count
    /\ total(body.relation_types, DOMAIN body.relation_types) = body.relations_count

C27_StatsFromCurrentStore ==
    /\ stats_of_store(kg_stats(knowledge_graph).result.body)
    /\ name = "kg_stats" =>
           /\ result.kind = "json"
           /\ stats_of_store(result.body)

\* A, first in the dict and an endpoint of two relations with different
\* labels, so written before them at time 1, was overwritten at time 2 as
\* a concept; kg_stats counts one concept and one person.
C27_Witness ==
    /\ name = "kg_stats"
    /\ Len(entities) = 2
    /\ entities[1].id = "A"
    /\ entities[1].data.type = "concept"
    /\ entities[1].data.created_at = 2
    /\ Len(relations) = 2
    /\ relations[1].created_at = 1
    /\ relations[1].relation # relations[2].relation
    /\ result.kind = "json"
    /\ result.body.entity_types = [concept |-> 1, person |-> 1]
    /\ result.body.relation_types = [knows |-> 1, related_to |-> 1]

(***************************************************************************)
(* C28.  kg_add_entity always succeeds and changes only the record of the  *)
(* given id: the relation log and the record of every other entity stay as *)
(* they were, also when the id is an endpoint of relations in the log,     *)
(* which stay there and still name it.  A successful kg_add_relation       *)
(* leaves entities as they were and only appends one record, the one it    *)
(* was given, at the end of the log.                                       *)
(***************************************************************************)
C28_AddsChangeOnlyTheirOwn ==
    [][/\ AddEntityCalled' =>
              /\ result'.kind = "text"
              /\ result'.body[1] = "Added entity '"
              /\ relations' = relations
              /\ dict_keys(entities') = dict_keys(entities) \cup {arguments'["entity"]}
              /\ \A id \in dict_keys(entities) \ {arguments'["entity"]} :
                     dict_get(entities', id) = dict_get(entities, id)
       /\ (AddRelationCalled' /\ result'.kind = "text"
                              /\ result'.body[1] = "Added relation: ") =>
              /\ entities' = entities
              /\ Len(relations') = Len(relations) + 1
              /\ SubSeq(relations', 1, Len(relations)) = relations
              /\ relations'[Len(relations')].from = arguments'["from_entity"]
              /\ relations'[Len(relations')].relation = arguments'["relation"]
              /\ relations'[Len(relations')].to = arguments'["to_entity"]]_vars

\* A was overwritten at time 2 while both relations of the log, added at
\* time 1, have it as an endpoint: they are still there beside B's record.
C28_Witness ==
    /\ AddEntityCalled
    /\ arguments["entity"] = "A"
    /\ dict_get(entities, "A").created_at = 2
    /\ dict_has(entities, "B")
    /\ Len(relations) = 2
    /\ relations[1].created_at = 1 /\ relations[1].from = "A"
    /\ relations[2].created_at = 1 /\ relations[2].to = "A"

(***************************************************************************)
(* C29.  Entity queries answer in the order in which each id was first     *)
(* inserted: kg_add_entity on an id the store has replaces the record      *)
(* where it stands, so for a fixed text and limit an overwrite after which *)
(* the entity matches as it did before changes neither the ids an entity   *)
(* query returns nor their order.                                          *)
(***************************************************************************)
id_order(d) == [i \in 1..Len(d) |-> d[i].id]

query_ids(kg, t, l) ==
    LET found == kg_query(kg, [query |-> t, query_type |-> "entity",
                               limit |-> l]).result.body.results
    IN [i \in 1..Len(found) |-> found[i].id]

matches(t, data, id) == text_in(t, id) \/ text_in(t, data.type)

C29_OverwriteKeepsOrder ==
    [][(AddEntityCalled' /\ dict_has(entities, arguments'["entity"])) =>
           LET id == arguments'["entity"]
           IN /\ id_order(entities') = id_order(entities)
              /\ \A t \in {"", "a", "o", "c"}, l \in 0..MaxLimit :
                     (/\ matches(t, dict_get(entities, id), id)
                      /\ matches(t, dict_get(entities', id), id)) =>
                         query_ids(knowledge_graph', t, l)
                             = query_ids(knowledge_graph, t, l)]_vars

\* A, first in the dict before B, was overwritten as a person (the log
\* shows it was there before); the query "o" with limit 1 still answers A.
C29_Witness ==
    /\ AddEntityCalled
    /\ arguments["entity"] = "A"
    /\ arguments["type"] = "person"
    /\ Len(relations) >= 1
    /\ id_order(entities) = <<"A", "B">>
    /\ entities[2].data.type = "concept"
    /\ query_ids(knowledge_graph, "o", 1) = <<"A">>

(***************************************************************************)
(* C30.  kg_query with query_type "path" is accepted and searches nothing: *)
(* for every text, every limit and every store it returns the result       *)
(* object with the text it was given and an empty results sequence, raises *)
(* no error and leaves the store as it was.                                *)
(***************************************************************************)
C30_PathFindsNothing ==
    [][(QueryCalled' /\ query_kind' = "path") =>
           /\ result' = Json([query |-> query_text', results |-> <<>>])
           /\ knowledge_graph' = knowledge_graph]_vars

\* A path query for a text that two entities match, on a store that has a
\* relation too, returned no result.
C30_Witness ==
    /\ QueryCalled
    /\ query_kind = "path"
    /\ query_text = "C"
    /\ query_limit = MaxLimit
    /\ Len(matching_entities("C")) = 2
    /\ Len(relations) >= 1
    /\ result.kind = "json"
    /\ result.body.results = <<>>

=============================================================================
